---- MODULE Spec2Model ----
(***************************************************************************)
(* Model of bot.py: a chat-bot host that loads, unloads and reloads plugin *)
(* modules ("cogs"), relays command errors and runs a reboot command.      *)
(*                                                                         *)
(* Strings the program manipulates (file paths, extension names) are       *)
(* sequences of one-character strings, so that the path-to-name            *)
(* conversion and the import lookup are computed as the code computes them.*)
(***************************************************************************)
EXTENDS Naturals, Sequences, FiniteSets

VARIABLES
    token,        \* os.getenv("DISCORD_TOKEN")
    app_id,       \* os.getenv("APPLICATION_ID")
    pc,           \* position of the process in the module-level code
    exit_status,  \* <<status>> once the process has exited, NoStatus before
    connected,    \* the_bot.start(token) has been called
    extensions,   \* the_bot.extensions: keys of the loaded modules
    tree,         \* the ./cogs directory: status of each possible file
    last,         \* what the most recent handler did (calls, logs, replies)
    hist,         \* history: how often main() ran, how far discovery got
    race          \* two reload_cog invocations in flight, step by step

vars == <<token, app_id, pc, exit_status, connected, extensions, tree, last,
          hist, race>>

----------------------------------------------------------------------------
(* String helpers *)

Replace(s, c, d) == [i \in 1..Len(s) |-> IF s[i] = c THEN d ELSE s[i]]

EndsWith(s, suf) ==
    /\ Len(s) >= Len(suf)
    /\ SubSeq(s, Len(s) - Len(suf) + 1, Len(s)) = suf

StartsWith(s, pre) ==
    /\ Len(s) >= Len(pre)
    /\ SubSeq(s, 1, Len(pre)) = pre

DropLast(s, n) == IF Len(s) <= n THEN <<>> ELSE SubSeq(s, 1, Len(s) - n)

Suffix == <<".", "p", "y">>
CogsDir == <<".", "/", "c", "o", "g", "s">>
CogsPkg == <<"c", "o", "g", "s", ".">>
Sep == <<"/">>

\* os.path.join(root, filename)
join(root, filename) == root \o Sep \o filename

\* os.path.relpath(path, start) for a path below start
relpath(path, start) ==
    IF StartsWith(path, start \o Sep)
    THEN SubSeq(path, Len(start) + 2, Len(path))
    ELSE path

\* cog_name that replaces backslashes only
cog_name_keeps_slash(cog_path) == DropLast(Replace(cog_path, "\\", "."), 3)

\* cog_path.replace("\\", ".").replace("/", ".")[:-3]
cog_name(cog_path) == DropLast(Replace(Replace(cog_path, "\\", "."), "/", "."), 3)

\* f"cogs.{ext}"
qualified(ext) == CogsPkg \o ext

----------------------------------------------------------------------------
(* The plugin directory *)

File(root, name) == [root |-> root, name |-> name]

SubDir == CogsDir \o <<"/", "s">>

F_a   == File(CogsDir, <<"a", ".", "p", "y">>)
F_b   == File(CogsDir, <<"b", ".", "p", "y">>)
F_sa  == File(SubDir,  <<"a", ".", "p", "y">>)
F_txt == File(SubDir,  <<"n", ".", "t", "x", "t">>)

Files == {F_a, F_b, F_txt, F_sa}

\* a file is absent, imports and registers cleanly, or raises on import/setup
Statuses(f) == IF EndsWith(f.name, Suffix)
               THEN {"absent", "valid", "broken"}
               ELSE {"absent", "valid"}

Trees == {t \in [Files -> {"absent", "valid", "broken"}] :
             \A f \in Files : t[f] \in Statuses(f)}

Present(t) == {f \in Files : t[f] # "absent"}

\* the extension names an administrator may type
Ext_a  == <<"a">>
Ext_b  == <<"b">>
Ext_sa == <<"s", ".", "a">>
Exts == {Ext_a, Ext_b, Ext_sa}

\* importlib's lookup of a dotted module name below the cogs package:
\* the file the name resolves to, relative to the working directory
module_file(name) ==
    <<".", "/">> \o Replace(name, ".", "/") \o Suffix

\* the status of the module a dotted name resolves to
module_status(t, name) ==
    IF \E f \in Present(t) : join(f.root, f.name) = module_file(name)
    THEN t[CHOOSE f \in Present(t) : join(f.root, f.name) = module_file(name)]
    ELSE "absent"

----------------------------------------------------------------------------
(* Log entries and replies *)

Entry(level, msg) == [level |-> level, msg |-> msg]

NoStatus == <<>>

NoInv == [admin |-> FALSE, owner |-> FALSE]

\* what a handler leaves behind for an observer: the command, its invoker
\* and its argument, the extension set it started from, the registry calls
\* it made in order, the log entries it wrote, the replies it sent, the
\* command error that was dispatched to on_command_error, and whether the
\* handler right before it ran the same command with the same argument and
\* had all its registry calls succeed; for discovery, the value
\* load_all_the_cogs returned
NoLast == [op |-> "none", inv |-> NoInv, ext |-> <<>>, pre |-> {},
           calls |-> <<>>, logs |-> <<>>, replies |-> <<>>, error |-> "none",
           repeat |-> FALSE, ret |-> [kind |-> "unset"]]

\* main() has not run and nothing has been discovered
NoHist == [mains |-> 0, discovery |-> "none"]

\* no reload_cog invocation is in flight
NoRace == [cogs |-> {}, task |-> <<>>]

----------------------------------------------------------------------------
(* The extension registry of the client library, as bot.py uses it *)

\* bot.load_extension(name): result and the new extension set
load_extension(exts, t, name) ==
    IF name \in exts
    THEN [raised |-> "ExtensionAlreadyLoaded", exts |-> exts]
    ELSE IF module_status(t, name) = "absent"
    THEN [raised |-> "ExtensionNotFound", exts |-> exts]
    ELSE IF module_status(t, name) = "broken"
    THEN [raised |-> "ExtensionFailed", exts |-> exts]
    ELSE [raised |-> "none", exts |-> exts \cup {name}]

\* bot.unload_extension(name)
unload_extension(exts, name) ==
    IF name \notin exts
    THEN [raised |-> "ExtensionNotLoaded", exts |-> exts]
    ELSE [raised |-> "none", exts |-> exts \ {name}]

Call(fn, ext, ok) == [fn |-> fn, ext |-> ext, ok |-> ok]

\* _load_cog that passes ext to the library without the package prefix
_load_cog_unqualified(exts, t, ext) ==
    LET r == load_extension(exts, t, ext) IN
    IF r.raised = "none"
    THEN [ok |-> TRUE, exts |-> r.exts,
          logs |-> <<Entry("info", "Loaded cog")>>,
          calls |-> <<Call("load", ext, TRUE)>>]
    ELSE [ok |-> FALSE, exts |-> r.exts,
          logs |-> <<Entry("error", "Couldn't load cog")>>,
          calls |-> <<Call("load", ext, FALSE)>>]

\* _load_cog that returns True after the except branch as well
_load_cog_always_true(exts, t, ext) ==
    LET r == load_extension(exts, t, qualified(ext)) IN
    IF r.raised = "none"
    THEN [ok |-> TRUE, exts |-> r.exts,
          logs |-> <<Entry("info", "Loaded cog")>>,
          calls |-> <<Call("load", ext, TRUE)>>]
    ELSE [ok |-> TRUE, exts |-> r.exts,
          logs |-> <<Entry("error", "Couldn't load cog")>>,
          calls |-> <<Call("load", ext, TRUE)>>]

\* async def _load_cog(bot, ext)
_load_cog(exts, t, ext) ==
    LET r == load_extension(exts, t, qualified(ext)) IN
    IF r.raised = "none"
    THEN [ok |-> TRUE, exts |-> r.exts,
          logs |-> <<Entry("info", "Loaded cog")>>,
          calls |-> <<Call("load", ext, TRUE)>>]
    ELSE [ok |-> FALSE, exts |-> r.exts,
          logs |-> <<Entry("error", "Couldn't load cog")>>,
          calls |-> <<Call("load", ext, FALSE)>>]

\* _unload_cog that returns True after the except branch as well
_unload_cog_always_true(exts, ext) ==
    LET r == unload_extension(exts, qualified(ext)) IN
    IF r.raised = "none"
    THEN [ok |-> TRUE, exts |-> r.exts,
          logs |-> <<Entry("info", "Unloaded cog")>>,
          calls |-> <<Call("unload", ext, TRUE)>>]
    ELSE [ok |-> TRUE, exts |-> r.exts,
          logs |-> <<Entry("error", "Couldn't unload cog")>>,
          calls |-> <<Call("unload", ext, TRUE)>>]

\* async def _unload_cog(bot, ext)
_unload_cog(exts, ext) ==
    LET r == unload_extension(exts, qualified(ext)) IN
    IF r.raised = "none"
    THEN [ok |-> TRUE, exts |-> r.exts,
          logs |-> <<Entry("info", "Unloaded cog")>>,
          calls |-> <<Call("unload", ext, TRUE)>>]
    ELSE [ok |-> FALSE, exts |-> r.exts,
          logs |-> <<Entry("error", "Couldn't unload cog")>>,
          calls |-> <<Call("unload", ext, FALSE)>>]

----------------------------------------------------------------------------
(* Startup *)

Tokens == {"None", "", "secret"}
AppIds == {"None", "", "123", "abc"}

\* Python truthiness of an environment value
Truthy(v) == v \notin {"None", ""}

Init ==
    /\ token \in Tokens
    /\ app_id \in AppIds
    /\ pc = "config"
    /\ exit_status = NoStatus
    /\ connected = FALSE
    /\ extensions = {}
    /\ tree \in Trees
    /\ last = NoLast
    /\ hist = NoHist
    /\ race = NoRace

\* the configuration test written with "and"
config_missing_both(tok, app) == ~Truthy(tok) /\ ~Truthy(app)

\* not token or not app_id
config_missing(tok, app) == ~Truthy(tok) \/ ~Truthy(app)

\* if not token or not app_id: log.critical(...); exit(1)
ConfigCheck ==
    /\ pc = "config"
    /\ IF config_missing(token, app_id)
       THEN /\ pc' = "exited"
            /\ exit_status' = <<1>>
            /\ last' = [NoLast EXCEPT !.op = "config",
                          !.logs = <<Entry("critical", "token or app ID not set")>>]
       ELSE /\ pc' = "construct"
            /\ exit_status' = exit_status
            /\ last' = [NoLast EXCEPT !.op = "config"]
    /\ UNCHANGED <<token, app_id, connected, extensions, tree, hist, race>>

\* the_bot = commands.Bot(..., application_id=int(app_id))
IsNumeric(v) == v = "123"

ConstructBot ==
    /\ pc = "construct"
    /\ IF IsNumeric(app_id)
       THEN /\ pc' = "main"
            /\ exit_status' = exit_status
       ELSE /\ pc' = "crashed"
            /\ exit_status' = <<1>>
    /\ last' = [NoLast EXCEPT !.op = "construct"]
    /\ UNCHANGED <<token, app_id, connected, extensions, tree, hist, race>>

----------------------------------------------------------------------------
(* Discovery *)

Perms(S) ==
    {p \in [1..Cardinality(S) -> S] :
        \A i, j \in 1..Cardinality(S) : i # j => p[i] # p[j]}

FilesIn(t, root) == {f \in Present(t) : f.root = root}

\* os.walk("./cogs"): the directory itself first, then its subdirectory;
\* the files of one directory come in whatever order the listing gives
Walks(t) ==
    {p \o q : p \in Perms(FilesIn(t, CogsDir)), q \in Perms(FilesIn(t, SubDir))}

Outcome(exts, logs, calls) == [exts |-> exts, logs |-> logs, calls |-> calls]

\* load_all_the_cogs that gives up at the first plugin that fails to load
RECURSIVE load_all_the_cogs_abort(_, _, _)
load_all_the_cogs_abort(exts, t, walk) ==
    IF walk = <<>>
    THEN Outcome(exts, <<>>, <<>>)
    ELSE LET f == Head(walk) IN
         IF EndsWith(f.name, Suffix)
         THEN LET cog_path == relpath(join(f.root, f.name), CogsDir)
                  r == _load_cog(exts, t, cog_name(cog_path))
                  rest == IF r.ok
                          THEN load_all_the_cogs_abort(r.exts, t, Tail(walk))
                          ELSE Outcome(r.exts, <<>>, <<>>)
              IN Outcome(rest.exts, r.logs \o rest.logs, r.calls \o rest.calls)
         ELSE load_all_the_cogs_abort(exts, t, Tail(walk))

\* async def load_all_the_cogs(), over the files in the order walked
RECURSIVE load_all_the_cogs(_, _, _)
load_all_the_cogs(exts, t, walk) ==
    IF walk = <<>>
    THEN Outcome(exts, <<>>, <<>>)
    ELSE LET f == Head(walk) IN
         IF EndsWith(f.name, Suffix)
         THEN LET cog_path == relpath(join(f.root, f.name), CogsDir)
                  r == _load_cog(exts, t, cog_name(cog_path))
                  rest == load_all_the_cogs(r.exts, t, Tail(walk))
              IN Outcome(rest.exts, r.logs \o rest.logs, r.calls \o rest.calls)
         ELSE load_all_the_cogs(exts, t, Tail(walk))

\* the value of a call of load_all_the_cogs: the function has no return
\* statement and drops what _load_cog returns
PyNone == [kind |-> "None"]

load_all_the_cogs_returns(exts, t, walk) == PyNone

\* the files with the module suffix have all had a load attempted
Attempted(t, calls) ==
    \A f \in Present(t) :
        EndsWith(f.name, Suffix) =>
           \E i \in 1..Len(calls) :
              /\ calls[i].fn = "load"
              /\ join(CogsDir, Replace(calls[i].ext, ".", "/") \o Suffix)
                    = join(f.root, f.name)

\* main(), first statement: await load_all_the_cogs()
MainLoadAll ==
    /\ pc = "main"
    /\ \E walk \in Walks(tree) :
         LET r == load_all_the_cogs(extensions, tree, walk) IN
         /\ extensions' = r.exts
         /\ last' = [NoLast EXCEPT !.op = "startup", !.pre = extensions,
                       !.calls = r.calls, !.logs = r.logs,
                       !.ret = load_all_the_cogs_returns(extensions, tree, walk)]
         /\ hist' = [mains |-> hist.mains + 1,
                     discovery |-> IF Attempted(tree, r.calls)
                                   THEN "complete" ELSE "partial"]
    /\ pc' = "start"
    /\ UNCHANGED <<token, app_id, exit_status, connected, tree, race>>

\* main() that starts the connection without waiting for discovery
MainStart_before_load ==
    /\ pc \in {"main", "start"}
    /\ connected' = TRUE
    /\ pc' = "running"
    /\ last' = [NoLast EXCEPT !.op = "start"]
    /\ UNCHANGED <<token, app_id, exit_status, extensions, tree, hist, race>>

\* main(), second statement: await the_bot.start(token)
MainStart ==
    /\ pc = "start"
    /\ connected' = TRUE
    /\ pc' = "running"
    /\ last' = [NoLast EXCEPT !.op = "start"]
    /\ UNCHANGED <<token, app_id, exit_status, extensions, tree, hist, race>>

\* main(), second statement raises (login or network failure): the
\* exception leaves asyncio.run(main()) at line 136, outside the try block
MainStartFails ==
    /\ pc = "start"
    /\ connected' = TRUE
    /\ pc' = "crashed"
    /\ exit_status' = <<1>>
    /\ last' = [NoLast EXCEPT !.op = "start_failed"]
    /\ UNCHANGED <<token, app_id, extensions, tree, hist, race>>

\* the bot is closed from inside (a plugin calls close()): the_bot.start
\* returns, main() returns and asyncio.run(main()) returns
BotClosed ==
    /\ pc = "running"
    /\ pc' = "after_run"
    /\ last' = [NoLast EXCEPT !.op = "closed"]
    /\ UNCHANGED <<token, app_id, exit_status, connected, extensions, tree,
                   hist, race>>

\* lines 137-146 with a usable event loop: main() runs a second time
SecondStart_reruns_main ==
    /\ pc = "after_run"
    /\ pc' = "main"
    /\ exit_status' = exit_status
    /\ last' = [NoLast EXCEPT !.op = "second_start"]
    /\ UNCHANGED <<token, app_id, connected, extensions, tree, hist, race>>

\* lines 137-146 after asyncio.run has returned: asyncio.run has unset the
\* current event loop, so asyncio.get_event_loop() raises RuntimeError before
\* main() is called again; the except clause logs it; loop.close() in the
\* finally clause raises NameError because loop was never bound, so the
\* last log call is not reached and the process ends with a traceback
SecondStart ==
    /\ pc = "after_run"
    /\ pc' = "crashed"
    /\ exit_status' = <<1>>
    /\ last' = [NoLast EXCEPT !.op = "second_start",
                  !.logs = <<Entry("error", "An error occurred during bot startup")>>]
    /\ UNCHANGED <<token, app_id, connected, extensions, tree, hist, race>>

\* def handle_shutdown(*args), on SIGINT or SIGTERM while the loop runs
handle_shutdown ==
    /\ pc \in {"main", "start", "running"}
    /\ pc' = "stopping"
    /\ last' = [NoLast EXCEPT !.op = "signal",
                  !.logs = <<Entry("info", "Received shutdown signal")>>]
    /\ UNCHANGED <<token, app_id, exit_status, connected, extensions, tree,
                   hist, race>>

\* the stopped loop makes run_until_complete raise RuntimeError("Event loop
\* stopped before Future completed."); it leaves asyncio.run(main()) at
\* line 136, outside the try block, so lines 137-146 never run
LoopStopped ==
    /\ pc = "stopping"
    /\ pc' = "crashed"
    /\ exit_status' = <<1>>
    /\ last' = [NoLast EXCEPT !.op = "loop_stopped"]
    /\ UNCHANGED <<token, app_id, connected, extensions, tree, hist, race>>

\* the plugin directory is edited from outside the process
EditTree ==
    /\ pc \in {"main", "start", "running"}
    /\ \E f \in Files : \E st \in Statuses(f) :
         /\ st # tree[f]
         /\ tree' = [tree EXCEPT ![f] = st]
    /\ last' = NoLast
    /\ UNCHANGED <<token, app_id, pc, exit_status, connected, extensions, hist, race>>

----------------------------------------------------------------------------
(* Event relay *)

\* the command errors of the client library and their base classes
Errors == {"MissingPermissions", "NotOwner", "CommandNotFound",
           "MissingRequiredArgument", "CommandInvokeError"}

Base(cls) ==
    CASE cls = "MissingPermissions"      -> "CheckFailure"
      [] cls = "NotOwner"                -> "CheckFailure"
      [] cls = "CheckFailure"            -> "CommandError"
      [] cls = "CommandNotFound"         -> "CommandError"
      [] cls = "MissingRequiredArgument" -> "UserInputError"
      [] cls = "UserInputError"          -> "CommandError"
      [] cls = "CommandInvokeError"      -> "CommandError"
      [] cls = "CommandError"            -> "Exception"
      [] OTHER                           -> "object"

RECURSIVE isinstance(_, _)
isinstance(error, cls) ==
    IF error = cls THEN TRUE
    ELSE IF error = "object" THEN FALSE
    ELSE isinstance(Base(error), cls)

Relayed(logs, replies) == [logs |-> logs, replies |-> replies]

\* on_command_error without the CommandNotFound branch
on_command_error_no_notfound(has_on_error, error) ==
    IF has_on_error
    THEN Relayed(<<>>, <<>>)
    ELSE IF isinstance(error, "MissingPermissions")
    THEN Relayed(<<>>, <<"no permissions for that command">>)
    ELSE Relayed(<<Entry("error", "Something went wrong")>>,
                 <<"ran into a problem, try again">>)

\* on_command_error whose last branch logs but does not reply
on_command_error_no_reply(has_on_error, error) ==
    IF has_on_error
    THEN Relayed(<<>>, <<>>)
    ELSE IF isinstance(error, "MissingPermissions")
    THEN Relayed(<<>>, <<"no permissions for that command">>)
    ELSE IF isinstance(error, "CommandNotFound")
    THEN Relayed(<<>>, <<>>)
    ELSE Relayed(<<Entry("error", "Something went wrong")>>, <<>>)

\* on_command_error without the test for the command's own handler
on_command_error_no_defer(has_on_error, error) ==
    IF isinstance(error, "MissingPermissions")
    THEN Relayed(<<>>, <<"no permissions for that command">>)
    ELSE IF isinstance(error, "CommandNotFound")
    THEN Relayed(<<>>, <<>>)
    ELSE Relayed(<<Entry("error", "Something went wrong")>>,
                 <<"ran into a problem, try again">>)

\* async def on_command_error(ctx, error)
on_command_error(has_on_error, error) ==
    IF has_on_error
    THEN Relayed(<<>>, <<>>)
    ELSE IF isinstance(error, "MissingPermissions")
    THEN Relayed(<<>>, <<"no permissions for that command">>)
    ELSE IF isinstance(error, "CommandNotFound")
    THEN Relayed(<<>>, <<>>)
    ELSE Relayed(<<Entry("error", "Something went wrong")>>,
                 <<"ran into a problem, try again">>)

\* what a command that failed before its body ran leaves behind; none of
\* the commands of bot.py defines an error handler of its own
Failed(op, inv, ext, error) ==
    LET r == on_command_error(FALSE, error) IN
    [NoLast EXCEPT !.op = op, !.inv = inv, !.ext = ext, !.pre = extensions,
                   !.error = error, !.logs = r.logs, !.replies = r.replies]

----------------------------------------------------------------------------
(* Command surface *)

Invokers == [admin : BOOLEAN, owner : BOOLEAN]

NoArg == <<"?">>
Args == Exts \cup {NoArg}

\* a command registered without the has_permissions decorator
admin_check_undecorated(inv, arg) ==
    IF arg = NoArg THEN "MissingRequiredArgument" ELSE "none"

\* the checks and the argument parsing the library runs before a command
\* decorated with has_permissions(administrator=True) and taking one argument
admin_check(inv, arg) ==
    IF ~inv.admin THEN "MissingPermissions"
    ELSE IF arg = NoArg THEN "MissingRequiredArgument"
    ELSE "none"

\* the check the library runs before a command decorated with is_owner()
owner_check(inv) == IF ~inv.owner THEN "NotOwner" ELSE "none"

\* body of load_cog
load_cog_body(exts, t, extension) ==
    LET r == _load_cog(exts, t, extension) IN
    [exts |-> r.exts, logs |-> r.logs, calls |-> r.calls,
     replies |-> IF r.ok THEN <<"is loaded up">> ELSE <<"Failed to load">>]

\* body of unload_cog
unload_cog_body(exts, extension) ==
    LET r == _unload_cog(exts, extension) IN
    [exts |-> r.exts, logs |-> r.logs, calls |-> r.calls,
     replies |-> IF r.ok THEN <<"is unloaded">> ELSE <<"Couldn't unload">>]

\* reload_cog that evaluates both steps before combining them
reload_cog_body_eager(exts, t, extension) ==
    LET u == _unload_cog(exts, extension)
        l == _load_cog(u.exts, t, extension)
    IN [exts |-> l.exts, logs |-> u.logs \o l.logs, calls |-> u.calls \o l.calls,
        replies |-> IF u.ok /\ l.ok THEN <<"Refreshed">>
                                    ELSE <<"Something went wrong reloading">>]

\* reload_cog that stops after the unload step
reload_cog_body_unload_only(exts, t, extension) ==
    LET u == _unload_cog(exts, extension) IN
    [exts |-> u.exts, logs |-> u.logs, calls |-> u.calls,
     replies |-> IF u.ok THEN <<"Refreshed">>
                         ELSE <<"Something went wrong reloading">>]

\* body of reload_cog: _unload_cog(...) and _load_cog(...), short-circuit
reload_cog_body(exts, t, extension) ==
    LET u == _unload_cog(exts, extension) IN
    IF u.ok
    THEN LET l == _load_cog(u.exts, t, extension) IN
         [exts |-> l.exts, logs |-> u.logs \o l.logs, calls |-> u.calls \o l.calls,
          replies |-> IF l.ok THEN <<"Refreshed">>
                              ELSE <<"Something went wrong reloading">>]
    ELSE [exts |-> u.exts, logs |-> u.logs, calls |-> u.calls,
          replies |-> <<"Something went wrong reloading">>]

\* the handler that ran last was this command with this argument and all
\* its registry calls succeeded
PrevOk(op, ext) ==
    /\ last.op = op
    /\ last.ext = ext
    /\ last.error = "none"
    /\ last.calls # <<>>
    /\ \A i \in 1..Len(last.calls) : last.calls[i].ok

Done(op, inv, ext, r) ==
    [NoLast EXCEPT !.op = op, !.inv = inv, !.ext = ext, !.pre = extensions,
                   !.calls = r.calls, !.logs = r.logs, !.replies = r.replies,
                   !.repeat = PrevOk(op, ext)]

\* ?load_cog <extension>
load_cog(inv, arg) ==
    /\ pc = "running"
    /\ LET e == admin_check(inv, arg) IN
       IF e # "none"
       THEN /\ last' = Failed("load_cog", inv, arg, e)
            /\ extensions' = extensions
       ELSE LET r == load_cog_body(extensions, tree, arg) IN
            /\ last' = Done("load_cog", inv, arg, r)
            /\ extensions' = r.exts
    /\ UNCHANGED <<token, app_id, pc, exit_status, connected, tree, hist, race>>

\* ?unload_cog <extension>
unload_cog(inv, arg) ==
    /\ pc = "running"
    /\ LET e == admin_check(inv, arg) IN
       IF e # "none"
       THEN /\ last' = Failed("unload_cog", inv, arg, e)
            /\ extensions' = extensions
       ELSE LET r == unload_cog_body(extensions, arg) IN
            /\ last' = Done("unload_cog", inv, arg, r)
            /\ extensions' = r.exts
    /\ UNCHANGED <<token, app_id, pc, exit_status, connected, tree, hist, race>>

\* ?reload_cog <extension>
reload_cog(inv, arg) ==
    /\ pc = "running"
    /\ LET e == admin_check(inv, arg) IN
       IF e # "none"
       THEN /\ last' = Failed("reload_cog", inv, arg, e)
            /\ extensions' = extensions
       ELSE LET r == reload_cog_body(extensions, tree, arg) IN
            /\ last' = Done("reload_cog", inv, arg, r)
            /\ extensions' = r.exts
    /\ UNCHANGED <<token, app_id, pc, exit_status, connected, tree, hist, race>>

\* for cog in list(the_bot.extensions.keys()): await _unload_cog(the_bot, cog)
RECURSIVE unload_all(_, _)
unload_all(exts, keys) ==
    IF keys = <<>>
    THEN Outcome(exts, <<>>, <<>>)
    ELSE LET r == _unload_cog(exts, Head(keys))
             rest == unload_all(r.exts, Tail(keys))
         IN Outcome(rest.exts, r.logs \o rest.logs, r.calls \o rest.calls)

\* body of reboot, with the keys and the files in the order iterated
reboot_body(exts, t, keys, walk) ==
    LET u == unload_all(exts, keys)
        l == load_all_the_cogs(u.exts, t, walk)
    IN [exts |-> l.exts,
        logs |-> <<Entry("info", "Bot is restarting")>> \o u.logs \o l.logs
                 \o <<Entry("info", "Bot restarted and cogs reloaded")>>,
        calls |-> u.calls \o l.calls,
        replies |-> <<"Going down for a quick reboot", "Back online">>]

\* ?reboot
reboot(inv) ==
    /\ pc = "running"
    /\ LET e == owner_check(inv) IN
       IF e # "none"
       THEN /\ last' = Failed("reboot", inv, <<>>, e)
            /\ extensions' = extensions
       ELSE \E keys \in Perms(extensions) : \E walk \in Walks(tree) :
              LET r == reboot_body(extensions, tree, keys, walk) IN
              /\ last' = [Done("reboot", inv, <<>>, r) EXCEPT
                            !.ret = load_all_the_cogs_returns(extensions, tree, walk)]
              /\ extensions' = r.exts
    /\ UNCHANGED <<token, app_id, pc, exit_status, connected, tree, hist, race>>

\* a message with the prefix that names no command: the library dispatches
\* CommandNotFound with ctx.command = None
unknown_command ==
    /\ pc = "running"
    /\ last' = Failed("unknown", NoInv, <<>>, "CommandNotFound")
    /\ UNCHANGED <<token, app_id, pc, exit_status, connected, extensions, tree, hist, race>>

\* a command registered by a loaded plugin fails; it may define on_error
plugin_command_error(has_on_error, error) ==
    /\ pc = "running"
    /\ extensions # {}
    /\ LET r == on_command_error(has_on_error, error) IN
       last' = [NoLast EXCEPT !.op = "plugin", !.pre = extensions,
                  !.error = error, !.logs = r.logs, !.replies = r.replies,
                  !.ext = IF has_on_error THEN <<"on_error">> ELSE <<>>]
    /\ UNCHANGED <<token, app_id, pc, exit_status, connected, extensions, tree, hist, race>>

Next ==
    \/ ConfigCheck
    \/ ConstructBot
    \/ MainLoadAll
    \/ MainStart
    \/ MainStartFails
    \/ BotClosed
    \/ SecondStart
    \/ handle_shutdown
    \/ LoopStopped
    \/ EditTree
    \/ \E inv \in Invokers, arg \in Args : load_cog(inv, arg)
    \/ \E inv \in Invokers, arg \in Args : unload_cog(inv, arg)
    \/ \E inv \in Invokers, arg \in Args : reload_cog(inv, arg)
    \/ \E inv \in Invokers : reboot(inv)
    \/ unknown_command
    \/ \E h \in BOOLEAN, e \in Errors \ {"CommandNotFound"} : plugin_command_error(h, e)

Spec == Init /\ [][Next]_vars
----------------------------------------------------------------------------
(* Two reload_cog invocations in flight                                    *)
(*                                                                         *)
(* The handlers run on one event loop and give it up only where an await   *)
(* really suspends.  Inside reload_cog these places are in the library and *)
(* the plugin: unload_extension checks the key, removes the plugin's cog   *)
(* and awaits its cog_unload before it pops the key; load_extension checks *)
(* the key, imports the module and awaits setup, which awaits add_cog and  *)
(* the cog's cog_load, before it stores the key.  A setup that raises makes*)
(* load_extension remove the module's cogs and pop the key.  The plugin    *)
(* taken here registers one cog with a command from its setup.             *)

Tasks == {"A", "B"}

FailedReload == "Something went wrong reloading"

Step(exts, cogs, at, reply) ==
    [exts |-> exts, cogs |-> cogs, pc |-> at, reply |-> reply]

\* _load_cog up to the first await that can suspend: the key test, the
\* import, and add_cog's test for a cog of the same name
load_begin(exts, cogs, t, k) ==
    IF k \in exts
    THEN Step(exts, cogs, "done", FailedReload)
    ELSE IF module_status(t, k) # "valid"
    THEN Step(exts, cogs, "done", FailedReload)
    ELSE IF k \in cogs
    THEN Step(exts \ {k}, cogs \ {k}, "done", FailedReload)
    ELSE Step(exts, cogs, "cog_load", "none")

\* the rest of unload_extension once cog_unload is over: the key is popped,
\* _unload_cog returns True and reload_cog goes on to _load_cog
unload_end(exts, cogs, t, k) == load_begin(exts \ {k}, cogs, t, k)

\* reload_cog up to the first await that can suspend
unload_begin(exts, cogs, t, k) ==
    IF k \notin exts
    THEN Step(exts, cogs, "done", FailedReload)
    ELSE IF k \in cogs
    THEN Step(exts, cogs \ {k}, "cog_unload", "none")
    ELSE unload_end(exts, cogs, t, k)

\* the rest of _load_cog once cog_load is over: the cog's commands are
\* registered, which raises if they exist already, and the key is stored
load_end(exts, cogs, k) ==
    IF k \in cogs
    THEN Step(exts \ {k}, cogs \ {k}, "done", FailedReload)
    ELSE Step(exts \cup {k}, cogs \cup {k}, "done", "Refreshed")

Advance(i, r) ==
    /\ extensions' = r.exts
    /\ race' = [cogs |-> r.cogs,
                task |-> [race.task EXCEPT ![i].pc = r.pc, ![i].reply = r.reply]]
    /\ UNCHANGED <<token, app_id, pc, exit_status, connected, tree, last, hist>>

RaceInit ==
    /\ token = "secret"
    /\ app_id = "123"
    /\ pc = "running"
    /\ exit_status = NoStatus
    /\ connected = TRUE
    /\ tree \in {t \in Trees : /\ t[F_b] = "valid"
                              /\ t[F_a] # "absent"
                              /\ t[F_sa] = "absent"
                              /\ t[F_txt] = "absent"}
    /\ extensions = {qualified(Ext_a), qualified(Ext_b)}
    /\ last = NoLast
    /\ hist = [mains |-> 1, discovery |-> "complete"]
    /\ \E e \in [Tasks -> {Ext_a, Ext_b}] :
         race = [cogs |-> extensions,
                 task |-> [i \in Tasks |->
                             [pc |-> "idle", ext |-> e[i], reply |-> "none"]]]

\* reload_cog is invoked and runs to its first suspension
ReloadBegins(i) ==
    /\ race.task[i].pc = "idle"
    /\ Advance(i, unload_begin(extensions, race.cogs, tree,
                               qualified(race.task[i].ext)))

\* the cog's cog_unload has finished
CogUnloadEnds(i) ==
    /\ race.task[i].pc = "cog_unload"
    /\ Advance(i, unload_end(extensions, race.cogs, tree,
                             qualified(race.task[i].ext)))

\* the cog's cog_load has finished
CogLoadEnds(i) ==
    /\ race.task[i].pc = "cog_load"
    /\ Advance(i, load_end(extensions, race.cogs, qualified(race.task[i].ext)))

RaceNext ==
    \/ \E i \in Tasks : ReloadBegins(i)
    \/ \E i \in Tasks : CogUnloadEnds(i)
    \/ \E i \in Tasks : CogLoadEnds(i)

SpecRace == RaceInit /\ [][RaceNext]_vars

----------------------------------------------------------------------------
(* Properties *)

Ran(op) == last.op = op /\ last.error = "none"

Key == qualified(last.ext)

HasCall(fn) == \E i \in 1..Len(last.calls) : last.calls[i].fn = fn

PermissionReply == <<"no permissions for that command">>

\* C1: a reload whose unload step fails makes no load call, and the plugin
\* is active afterwards exactly if it was active before.
C1_FailedUnloadSkipsLoad ==
    (Ran("reload_cog") /\ last.calls[1] = Call("unload", last.ext, FALSE))
        => /\ ~HasCall("load")
           /\ (Key \in extensions) <=> (Key \in last.pre)

C1_Witness ==
    /\ Ran("reload_cog")
    /\ last.calls[1] = Call("unload", Ext_a, FALSE)
    /\ module_status(tree, qualified(Ext_a)) = "valid"

\* C2: after reboot, a plugin that was active when reboot was invoked and
\* whose file is no longer in the plugin directory is not active.
C2_RebootRebuildsFromDirectory ==
    Ran("reboot")
        => \A k \in last.pre :
              module_status(tree, k) = "absent" => k \notin extensions

\* C3: discovery attempts a load for every file with the module suffix;
\* afterwards a plugin whose load succeeded is active, one whose load raised
\* is not active, and there is one error entry per failed load.
C3_DiscoverLoadsAll ==
    (Ran("startup") \/ Ran("reboot"))
        => /\ \A f \in Present(tree) :
                EndsWith(f.name, Suffix) =>
                   \E i \in 1..Len(last.calls) :
                      /\ last.calls[i].fn = "load"
                      /\ last.calls[i].ext =
                            cog_name(relpath(join(f.root, f.name), CogsDir))
           /\ \A i \in 1..Len(last.calls) :
                last.calls[i].fn = "load" =>
                   (last.calls[i].ok <=> qualified(last.calls[i].ext) \in extensions)
           /\ Cardinality({i \in 1..Len(last.logs) :
                              last.logs[i] = Entry("error", "Couldn't load cog")})
                = Cardinality({i \in 1..Len(last.calls) :
                                  last.calls[i].fn = "load" /\ ~last.calls[i].ok})

\* C4: load of a plugin that is not active and whose module is valid
\* succeeds, and the plugin is in the active set right afterwards.
C4_LoadActivates ==
    (Ran("load_cog") /\ Key \notin last.pre /\ module_status(tree, Key) = "valid")
        => /\ last.calls = <<Call("load", last.ext, TRUE)>>
           /\ Key \in extensions
           /\ last.replies = <<"is loaded up">>

C4_Witness ==
    /\ Ran("load_cog")
    /\ last.ext = Ext_sa
    /\ Key \notin last.pre
    /\ module_status(tree, Key) = "valid"

\* C5: unload of an active plugin succeeds and removes it; unloading it
\* again right away fails, changes nothing and the process keeps running.
C5_UnloadThenUnloadAgain ==
    Ran("unload_cog")
        => /\ Key \in last.pre
                => /\ last.calls = <<Call("unload", last.ext, TRUE)>>
                   /\ extensions = last.pre \ {Key}
           /\ last.repeat
                => /\ last.calls = <<Call("unload", last.ext, FALSE)>>
                   /\ last.replies = <<"Couldn't unload">>
                   /\ extensions = last.pre
                   /\ pc = "running"
                   /\ exit_status = NoStatus

C5_Witness == Ran("unload_cog") /\ last.repeat /\ last.ext = Ext_b

\* C6: reload of an active, valid plugin leaves it active, and the active
\* set is the one unload followed by load gives from the same start.
C6_ReloadIsUnloadThenLoad ==
    (Ran("reload_cog") /\ Key \in last.pre /\ module_status(tree, Key) = "valid")
        => /\ Key \in extensions
           /\ extensions =
                load_cog_body(unload_cog_body(last.pre, last.ext).exts,
                              tree, last.ext).exts
           /\ last.replies = <<"Refreshed">>

C6_Witness ==
    /\ Ran("reload_cog")
    /\ Key \in last.pre
    /\ module_status(tree, Key) = "valid"
    /\ Cardinality(last.pre) > 1

\* C7: with the token or the application id missing, the process logs a
\* critical entry and exits with status 1, and never discovers plugins or
\* connects.
Unset(v) == v \in {"None", ""}

C7_MissingConfigExits ==
    (Unset(token) \/ Unset(app_id))
        => /\ pc \in {"config", "exited"}
           /\ ~connected
           /\ extensions = {}
           /\ last.op \in {"none", "config"}
           /\ pc = "exited"
                => /\ exit_status = <<1>>
                   /\ \E i \in 1..Len(last.logs) : last.logs[i].level = "critical"

C7_Witness == pc = "exited" /\ ~Unset(token) /\ Unset(app_id)

\* C8: load_cog, unload_cog or reload_cog invoked by a non-administrator
\* gets the permission reply, makes no registry call and leaves the active
\* set as it was.
C8_NonAdminDenied ==
    (last.op \in {"load_cog", "unload_cog", "reload_cog"} /\ ~last.inv.admin)
        => /\ last.replies = PermissionReply
           /\ last.calls = <<>>
           /\ extensions = last.pre

C8_Witness ==
    /\ last.op = "reload_cog"
    /\ ~last.inv.admin
    /\ last.ext = Ext_a
    /\ qualified(Ext_a) \in extensions

\* C9: a failed permission check on any command, reboot by a non-owner
\* included, gets the permission reply, writes no log entry and makes no
\* registry call.
C9_PermissionFailureReply ==
    (\/ last.op \in {"load_cog", "unload_cog", "reload_cog"} /\ ~last.inv.admin
     \/ last.op = "reboot" /\ ~last.inv.owner)
        => /\ last.replies = PermissionReply
           /\ last.logs = <<>>
           /\ last.calls = <<>>

\* C10: an unrecognized command gets no reply and no log entry, and leaves
\* the active set and the lifecycle state as they were.
C10_UnknownCommandSilent ==
    last.error = "CommandNotFound"
        => /\ last.replies = <<>>
           /\ last.logs = <<>>
           /\ last.calls = <<>>
           /\ extensions = last.pre
           /\ pc = "running"
           /\ connected

C10_Witness ==
    /\ last.op = "unknown"
    /\ last.error = "CommandNotFound"
    /\ extensions # {}

----------------------------------------------------------------------------
(* Properties of discovery results and of the process lifecycle *)

Discovered == Ran("startup") \/ Ran("reboot")

IsLoadEntry(e) == e.msg \in {"Loaded cog", "Couldn't load cog"}

LoadEntries == SelectSeq(last.logs, IsLoadEntry)

IsLoadCall(c) == c.fn = "load"

LoadCalls == SelectSeq(last.calls, IsLoadCall)

SuffixFiles == {f \in Present(tree) : EndsWith(f.name, Suffix)}

\* C11 as claimed: discovery returns an aggregate with one entry per
\* discovered plugin that tells whether its load succeeded.
C11_ReturnsAggregate ==
    Discovered
        => /\ last.ret.kind = "aggregate"
           /\ Len(last.ret.results) = Cardinality(SuffixFiles)
           /\ \A i \in 1..Len(last.ret.results) :
                last.ret.results[i].ok = LoadCalls[i].ok

\* C11 as amended: discovery returns no value; the outcome per discovered
\* plugin is only logged, one entry each, info for a load that succeeded
\* and error for one that failed.
C11_ReturnsNoneLogsEach ==
    Discovered
        => /\ last.ret = PyNone
           /\ Len(LoadEntries) = Cardinality(SuffixFiles)
           /\ Len(LoadCalls) = Len(LoadEntries)
           /\ \A i \in 1..Len(LoadEntries) :
                LoadEntries[i].level = IF LoadCalls[i].ok THEN "info" ELSE "error"

C11_Witness ==
    /\ Ran("startup")
    /\ Cardinality(SuffixFiles) = 3
    /\ \E i, j \in 1..Len(LoadCalls) : LoadCalls[i].ok /\ ~LoadCalls[j].ok

Rank(p) ==
    CASE p \in {"config", "construct"}   -> 0
      [] p \in {"main", "start"}         -> 1
      [] p = "running"                   -> 2
      [] p \in {"stopping", "after_run"} -> 3
      [] OTHER                           -> 4

\* C12: the lifecycle only moves forward through Idle, Starting, Running,
\* ShuttingDown, Stopped; main() runs at most once per process and the
\* process is never back in Starting once the connection has been started.
C12_LifecycleForward ==
    [][/\ Rank(pc') >= Rank(pc)
       /\ hist'.mains <= 1
       /\ connected => Rank(pc') # 1]_vars

C12_Witness ==
    /\ last.op = "second_start"
    /\ pc = "crashed"
    /\ connected
    /\ hist.mains = 1

\* C13: after a signal has stopped the loop of a connected bot, the process
\* has stopped and the shutdown-completion entry has been logged.
C13_ShutdownLogged ==
    (last.op = "loop_stopped" /\ connected)
        => /\ Rank(pc) = 4
           /\ \E i \in 1..Len(last.logs) :
                last.logs[i] = Entry("info", "Bot shutdown complete")

\* C16: the connection is started only after discovery has attempted a load
\* for every discovered plugin, however many of the loads failed.
C16_ConnectAfterDiscovery ==
    connected => hist.discovery = "complete" /\ hist.mains = 1

C16_Witness ==
    /\ connected
    /\ last.op = "start"
    /\ extensions = {qualified(Ext_sa)}
    /\ tree[F_a] = "broken"
    /\ tree[F_b] = "broken"

----------------------------------------------------------------------------
(* Properties of single registry operations and of the event relay *)

\* the active set right before the i-th registry call of the last handler
RECURSIVE Before(_)
Before(i) ==
    IF i = 1 THEN last.pre
    ELSE LET c == last.calls[i - 1]
             k == qualified(c.ext)
         IN IF ~c.ok THEN Before(i - 1)
            ELSE IF c.fn = "load" THEN Before(i - 1) \cup {k}
            ELSE Before(i - 1) \ {k}

\* C14: an identifier is never added to the active set while it is in it;
\* load of an active identifier, or of one whose import raises, returns
\* failure, logs one error, changes nothing and the process keeps running.
C14_LoadFailureIsClean ==
    /\ \A i \in 1..Len(last.calls) :
         (last.calls[i].fn = "load" /\ last.calls[i].ok)
            => qualified(last.calls[i].ext) \notin Before(i)
    /\ (Ran("load_cog") /\ (Key \in last.pre \/ module_status(tree, Key) # "valid"))
         => /\ last.calls = <<Call("load", last.ext, FALSE)>>
            /\ last.logs = <<Entry("error", "Couldn't load cog")>>
            /\ last.replies = <<"Failed to load">>
            /\ extensions = last.pre
            /\ pc = "running"
            /\ exit_status = NoStatus

C14_Witness ==
    /\ Ran("load_cog")
    /\ Key \in last.pre
    /\ module_status(tree, Key) = "valid"
    /\ last.repeat

BothStepsOk ==
    /\ Len(last.calls) = 2
    /\ last.calls[1] = Call("unload", last.ext, TRUE)
    /\ last.calls[2] = Call("load", last.ext, TRUE)

\* C15: reload answers with the confirmation exactly if its unload step and
\* its load step both returned success; after a successful unload and a
\* failed load it answers with the failure reply and the plugin is inactive.
C15_ReloadSuccessIffBoth ==
    Ran("reload_cog")
        => /\ (last.replies = <<"Refreshed">>) <=> BothStepsOk
           /\ ~BothStepsOk => last.replies = <<"Something went wrong reloading">>
           /\ (Len(last.calls) = 2 /\ last.calls[1].ok /\ ~last.calls[2].ok)
                => Key \notin extensions

C15_Witness ==
    /\ Ran("reload_cog")
    /\ Len(last.calls) = 2
    /\ last.calls[1].ok
    /\ ~last.calls[2].ok
    /\ last.replies = <<"Something went wrong reloading">>

OwnHandler == last.ext = <<"on_error">>

\* C17: a command error that is neither a permission nor an unknown-command
\* error, from a command without a handler of its own, gives exactly one
\* error log entry and one generic reply, and the process keeps running.
C17_OtherErrorLoggedAndAnswered ==
    (last.error \in {"MissingRequiredArgument", "CommandInvokeError"} /\ ~OwnHandler)
        => /\ last.logs = <<Entry("error", "Something went wrong")>>
           /\ last.replies = <<"ran into a problem, try again">>
           /\ last.calls = <<>>
           /\ pc = "running"
           /\ exit_status = NoStatus

C17_Witness ==
    /\ last.op = "plugin"
    /\ last.error = "CommandInvokeError"
    /\ ~OwnHandler

\* C18: for a command that defines its own error handler the relay sends no
\* reply and writes no log entry, whatever the error.
C18_OwnHandlerDefers ==
    (last.op = "plugin" /\ OwnHandler)
        => /\ last.replies = <<>>
           /\ last.logs = <<>>

C18_Witness ==
    /\ last.op = "plugin"
    /\ OwnHandler
    /\ last.error = "MissingPermissions"

\* the identifier the claim gives each file of the directory: its path below
\* the plugin directory, separators turned into dots, suffix removed
ExpectedName(f) ==
    CASE f = F_a  -> <<"a">>
      [] f = F_b  -> <<"b">>
      [] f = F_sa -> <<"s", ".", "a">>
      [] OTHER    -> <<>>

\* C19: discovery calls load exactly once for each file with the module
\* suffix, with the identifier derived from its relative path, and for no
\* other file.
C19_OneLoadPerSuffixFile ==
    Discovered
        => /\ \A f \in SuffixFiles :
                Cardinality({i \in 1..Len(LoadCalls) :
                                LoadCalls[i].ext = ExpectedName(f)}) = 1
           /\ \A i \in 1..Len(LoadCalls) :
                \E f \in SuffixFiles : LoadCalls[i].ext = ExpectedName(f)

C19_Witness ==
    /\ Ran("startup")
    /\ tree[F_txt] = "valid"
    /\ tree[F_sa] = "valid"
    /\ tree[F_a] = "broken"
    /\ Len(LoadCalls) = 2

----------------------------------------------------------------------------
(* Property of concurrent reloads *)

RaceKey == qualified(race.task["A"].ext)

BothDone == \A i \in Tasks : race.task[i].pc = "done"

\* C20: when two reload_cog invocations on the same active, valid plugin
\* interleave, the plugin is active once both have finished and at least
\* one of them has reported success.
C20_ConcurrentReloadsKeepActive ==
    (/\ BothDone
     /\ race.task["A"].ext = race.task["B"].ext
     /\ module_status(tree, RaceKey) = "valid")
        => /\ RaceKey \in extensions
           /\ \E i \in Tasks : race.task[i].reply = "Refreshed"
====
